---- MODULE Spec2Model ----
(***************************************************************************)
(* Model of the Marvell USB firmware downloader (src/src/main.rs).         *)
(*                                                                         *)
(* program_fw walks a firmware image record by record; each record is      *)
(* written as one bulk-out transfer (header + sequence number + payload)   *)
(* and answered by the device with a sync header read from bulk-in.        *)
(* The USB device is the environment: every bulk call either fails or      *)
(* succeeds, and a successful bulk-in call delivers some bytes.            *)
(*                                                                         *)
(* Bytes are the integers 0..255, buffers are sequences of bytes, and a    *)
(* u32 is the number its four little-endian bytes stand for.  The inputs   *)
(* the model draws keep the top byte of every u32 below 128, so each value *)
(* fits the model checker's integers.                                      *)
(***************************************************************************)
EXTENDS Integers, Sequences, FiniteSets, TLC

(***************************************************************************)
(* Program constants.                                                      *)
(***************************************************************************)
FW_CMD_7 == 7

FW_HAS_LAST_BLOCK == 4

\* One attempt more than line 44 allows.
MAX_FW_RETRY_four == 3 + 1

MAX_FW_RETRY == 3

FWHeader_size == 16

FWSyncHeader_size == 8

(***************************************************************************)
(* Bounds of the model.                                                    *)
(***************************************************************************)
MaxRecords == 3

(***************************************************************************)
(* binrw little-endian u32 codec (#[brw(little)]).                         *)
(***************************************************************************)
U32Write(n) ==
    << n % 256, (n \div 256) % 256, (n \div 65536) % 256, (n \div 16777216) % 256 >>

U32Read(bs, off) ==
    bs[off + 1] + 256 * bs[off + 2] + 65536 * bs[off + 3] + 16777216 * bs[off + 4]

\* Cursor-style slice: the bytes of bs at offsets off .. off+n-1.
Slice(bs, off, n) == [i \in 1..n |-> bs[off + i]]

Zeros(n) == [i \in 1..n |-> 0]

\* FWHeader with base_addr declared ahead of dnld_cmd.
FWHeader_write_swapped(h) ==
    U32Write(h.base_addr) \o U32Write(h.dnld_cmd) \o U32Write(h.data_length) \o U32Write(h.crc)

\* FWHeader::write: four u32 fields in declaration order.
FWHeader_write(h) ==
    U32Write(h.dnld_cmd) \o U32Write(h.base_addr) \o U32Write(h.data_length) \o U32Write(h.crc)

\* FWHeader::read on a cursor at offset pos: fails when fewer than 16 bytes remain.
FWHeader_read(bs, pos) ==
    IF pos + FWHeader_size > Len(bs)
    THEN [ok |-> FALSE]
    ELSE [ok |-> TRUE,
          hdr |-> [dnld_cmd    |-> U32Read(bs, pos),
                   base_addr   |-> U32Read(bs, pos + 4),
                   data_length |-> U32Read(bs, pos + 8),
                   crc         |-> U32Read(bs, pos + 12)]]

\* FWData with seq_num declared ahead of fw_header.
FWData_write_seqfirst(h, seq) == U32Write(seq) \o FWHeader_write(h)

\* FWData::write: the header followed by the sequence number.
FWData_write(h, seq) == FWHeader_write(h) \o U32Write(seq)

\* FWData::read: the header followed by the sequence number.
FWData_read(bs) ==
    [fw_header |-> FWHeader_read(bs, 0).hdr, seq_num |-> U32Read(bs, FWHeader_size)]

\* FWSyncHeader::write: two u32 fields in declaration order.
FWSyncHeader_write(k) == U32Write(k.cmd) \o U32Write(k.seq_num)

\* FWSyncHeader::read from the start of the receive buffer.
FWSyncHeader_read(buf) ==
    [cmd |-> U32Read(buf, 0), seq_num |-> U32Read(buf, 4)]

\* fw_data_xmit_size
fw_data_xmit_size(data_len) == FWHeader_size + data_len + 4

(***************************************************************************)
(* Firmware images the model runs on: up to MaxRecords records laid out    *)
(* back to back, the whole optionally cut short by a few bytes.  A record  *)
(* is a 16-byte header followed by its payload; a CMD7 record has no       *)
(* payload in the image even when its data_length field is not zero.       *)
(***************************************************************************)
RecordKinds ==
    { [cmd |-> 1, len |-> 2], [cmd |-> 7, len |-> 2],
      [cmd |-> 4, len |-> 1], [cmd |-> 5, len |-> 0] }

KindSeqs == UNION { [1..n -> RecordKinds] : n \in 0..MaxRecords }

Cuts == {0, 1, 17}

PayloadBytes == <<170, 187>>

\* The header of the i-th record of an image built from the kinds ks.
ImageHeader(ks, i) ==
    [dnld_cmd |-> ks[i].cmd, base_addr |-> 256 * i, data_length |-> ks[i].len, crc |-> 48879]

\* The payload stored in the image after the i-th header.
ImagePayload(ks, i) ==
    IF ks[i].cmd = 7 THEN <<>> ELSE SubSeq(PayloadBytes, 1, ks[i].len)

RECURSIVE ImageUpTo(_, _)
ImageUpTo(ks, n) ==
    IF n = 0 THEN <<>>
    ELSE ImageUpTo(ks, n - 1) \o FWHeader_write(ImageHeader(ks, n)) \o ImagePayload(ks, n)

ImageBytes(ks, cut) ==
    LET whole == ImageUpTo(ks, Len(ks)) IN SubSeq(whole, 1, Len(whole) - cut)

(***************************************************************************)
(* Device answers to a bulk-in read: Ok(n) with n bytes delivered.         *)
(***************************************************************************)
AckCmds == {0, 1}

AckSeqs == (0..MaxRecords) \cup {5}

AckLens == {0, FWSyncHeader_size}

DeviceResponses ==
    { SubSeq(U32Write(c) \o U32Write(s), 1, n) : c \in AckCmds, s \in AckSeqs, n \in AckLens }

(***************************************************************************)
(* program_fw.                                                             *)
(***************************************************************************)
VARIABLES
    fw,          \* the firmware image (the slice handed to program_fw)
    reader,      \* position of the Cursor over fw
    seq_num,     \* sequence counter
    retries,     \* retry budget
    data_len,    \* effective payload length of the current record
    fw_header,   \* header of the current record
    data_buf,    \* payload of the current record
    recv_buffer, \* first bytes of the receive buffer after the last bulk-in read
    pc,          \* ReadRecord, SendBlock, AwaitAck, Done, Failed
    result,      \* Running, Ok, or the error program_fw returns
    image_recs,  \* the record kinds the image was built from
    accepted,    \* frames of the blocks accepted so far, in order
    blk_io,      \* bulk calls made for the current record, in order
    n_rec,       \* records read from the image so far
    n_write,     \* bulk-out calls made so far
    n_read,      \* bulk-in calls made so far
    n_fail,      \* bulk calls that returned an error so far
    probe_io,    \* bulk calls made by check_chip_rev, in order
    chip_rev,    \* the revision check_chip_rev reported, if it did
    codec        \* a value taken through the frame codec, outside a download

\* What program_fw does not touch.
aux_vars == << probe_io, chip_rev, codec >>

vars == << fw, reader, seq_num, retries, data_len, fw_header, data_buf, recv_buffer,
           pc, result, image_recs, accepted, blk_io, n_rec, n_write, n_read, n_fail,
           probe_io, chip_rev, codec >>

NoReport == [reported |-> FALSE]

NoCodec == [stage |-> "idle"]

NoHeader == [dnld_cmd |-> 0, base_addr |-> 0, data_length |-> 0, crc |-> 0]

\* Lines 140-145 without the CMD7 rule of lines 143-145.
EffectiveLen_raw(h) == h.data_length

\* Lines 140-145: the payload length of a record.
EffectiveLen(h) == IF h.dnld_cmd = FW_CMD_7 THEN 0 ELSE h.data_length

\* Lines 138-147 with read in place of read_exact: a short payload is sent
\* as it is, the missing bytes left zero.
ReadRecordAt_short(bs, pos) ==
    LET h == FWHeader_read(bs, pos) IN
    IF ~h.ok THEN [ok |-> FALSE, hdr_ok |-> FALSE]
    ELSE LET n == EffectiveLen(h.hdr)
             p == pos + FWHeader_size
         IN  [ok |-> TRUE, hdr |-> h.hdr, data_len |-> n,
              data |-> [i \in 1..n |-> IF p + i <= Len(bs) THEN bs[p + i] ELSE 0],
              pos |-> IF p + n > Len(bs) THEN Len(bs) ELSE p + n]

\* Lines 138-147: read one record at the cursor; `?` returns the I/O error.
\* A header that does not fit leaves the cursor where it was (line 138).  A
\* payload that does not fit (line 147) is found after the header was consumed
\* and data_len set: read_exact fails, the cursor is left at the end of the
\* image and the zeroed data_buf of line 146 is not filled.
ReadRecordAt(bs, pos) ==
    LET h == FWHeader_read(bs, pos) IN
    IF ~h.ok THEN [ok |-> FALSE, hdr_ok |-> FALSE]
    ELSE LET n == EffectiveLen(h.hdr)
             p == pos + FWHeader_size
         IN  IF p + n > Len(bs)
             THEN [ok |-> FALSE, hdr_ok |-> TRUE, hdr |-> h.hdr, data_len |-> n,
                   data |-> Zeros(n), pos |-> Len(bs)]
             ELSE [ok |-> TRUE, hdr |-> h.hdr, data_len |-> n,
                   data |-> Slice(bs, p, n), pos |-> p + n]

\* Lines 158-164: the bytes handed to write_bulk.
SendBuffer(h, seq, data) == FWData_write(h, seq) \o data

\* Lines 173-175: a zeroed buffer into which read_bulk stored resp.
RecvBuffer(resp) ==
    [i \in 1..FWSyncHeader_size |-> IF i <= Len(resp) THEN resp[i] ELSE 0]

\* A bit test in place of the comparison of line 191.
IsLastBlock_bittest(h) == (h.dnld_cmd \div FW_HAS_LAST_BLOCK) % 2 = 1

\* Line 191 with >= in place of ==.
IsLastBlock_atleast(h) == h.dnld_cmd >= FW_HAS_LAST_BLOCK

\* Line 191.
IsLastBlock(h) == h.dnld_cmd = FW_HAS_LAST_BLOCK

\* Lines 185-198 without the sequence check of line 188.
AckVerdict_noseq(sync, seq, h) ==
    IF sync.cmd > 0 THEN "DeviceCrcError"
    ELSE IF IsLastBlock(h) THEN "Done"
    ELSE "Accept"

\* Lines 185-198 with the sequence check ahead of the CRC check.
AckVerdict_seqfirst(sync, seq, h) ==
    IF sync.seq_num # seq THEN "SequenceMismatch"
    ELSE IF sync.cmd > 0 THEN "DeviceCrcError"
    ELSE IF IsLastBlock(h) THEN "Done"
    ELSE "Accept"

\* Lines 185-198 with the last-block check ahead of the sequence check.
AckVerdict_lastfirst(sync, seq, h) ==
    IF sync.cmd > 0 THEN "DeviceCrcError"
    ELSE IF IsLastBlock(h) THEN "Done"
    ELSE IF sync.seq_num # seq THEN "SequenceMismatch"
    ELSE "Accept"

\* Lines 185-198 without the CRC check of line 185.
AckVerdict_nocrc(sync, seq, h) ==
    IF sync.seq_num # seq THEN "SequenceMismatch"
    ELSE IF IsLastBlock(h) THEN "Done"
    ELSE "Accept"

\* Lines 185-198: what the engine does with a decoded sync header.
AckVerdict(sync, seq, h) ==
    IF sync.cmd > 0 THEN "DeviceCrcError"
    ELSE IF sync.seq_num # seq THEN "SequenceMismatch"
    ELSE IF IsLastBlock(h) THEN "Done"
    ELSE "Accept"

\* Lines 167, 177 left out: a failure costs nothing.
RetriesAfterFailure_free(r) == r

\* Lines 167, 177.
RetriesAfterFailure(r) == r - 1

\* `continue` resuming at the read of line 175 instead of the head of the loop.
RetryTarget_read == "AwaitAck"

\* Lines 169, 179: `continue` goes back to the head of the inner loop, line 155.
RetryTarget == "SendBlock"

\* Line 197 left out: the budget is not reset.
RetriesAfterAccept_keep(r) == r

\* Line 197.
RetriesAfterAccept(r) == MAX_FW_RETRY

\* Line 200 incrementing once per transmission made instead of once per block.
NextSeq_skip(s) == s + 2

\* Line 200.
NextSeq(s) == s + 1

Init ==
    /\ \E ks \in KindSeqs, cut \in Cuts :
          /\ cut <= Len(ImageUpTo(ks, Len(ks)))
          /\ image_recs = ks
          /\ fw = ImageBytes(ks, cut)
    /\ reader = 0
    /\ seq_num = 0
    /\ retries = MAX_FW_RETRY
    /\ data_len = 0
    /\ fw_header = NoHeader
    /\ data_buf = <<>>
    /\ recv_buffer = Zeros(FWSyncHeader_size)
    /\ pc = "ReadRecord"
    /\ result = "Running"
    /\ accepted = <<>>
    /\ blk_io = <<>>
    /\ n_rec = 0
    /\ n_write = 0
    /\ n_read = 0
    /\ n_fail = 0
    /\ probe_io = <<>>
    /\ chip_rev = NoReport
    /\ codec = NoCodec

\* Lines 137-153: the head of the outer loop.  n_rec counts the records read
\* whole; a record whose payload is short is not counted.
ReadRecord ==
    /\ pc = "ReadRecord"
    /\ LET r == ReadRecordAt(fw, reader) IN
       IF r.ok
       THEN /\ fw_header' = r.hdr
            /\ data_len' = r.data_len
            /\ data_buf' = r.data
            /\ reader' = r.pos
            /\ pc' = "SendBlock"
            /\ n_rec' = n_rec + 1
            /\ UNCHANGED result
       ELSE /\ pc' = "Failed"
            /\ result' = "TruncatedImage"
            /\ IF r.hdr_ok
               THEN /\ fw_header' = r.hdr
                    /\ data_len' = r.data_len
                    /\ data_buf' = r.data
                    /\ reader' = r.pos
               ELSE UNCHANGED << fw_header, data_len, data_buf, reader >>
            /\ UNCHANGED n_rec
    /\ blk_io' = <<>>
    /\ UNCHANGED << fw, seq_num, retries, recv_buffer, image_recs, accepted,
                    n_write, n_read, n_fail >>
    /\ UNCHANGED aux_vars

\* Lines 167-169 and 177-179, then 155, 200, 137 and 203 when the budget is spent:
\* the inner loop ends, seq_num is incremented, the outer loop ends.
TransportFailure ==
    /\ retries' = RetriesAfterFailure(retries)
    /\ n_fail' = n_fail + 1
    /\ IF retries' > 0
       THEN /\ pc' = RetryTarget
            /\ UNCHANGED << seq_num, result >>
       ELSE /\ seq_num' = NextSeq(seq_num)
            /\ pc' = "Failed"
            /\ result' = "ExhaustedRetries"

\* Lines 157-170: write_bulk returns an error.
SendFail ==
    /\ pc = "SendBlock"
    /\ blk_io' = Append(blk_io, [op |-> "write", ok |-> FALSE,
                                 buf |-> SendBuffer(fw_header, seq_num, data_buf)])
    /\ n_write' = n_write + 1
    /\ TransportFailure
    /\ UNCHANGED << fw, reader, data_len, fw_header, data_buf, recv_buffer, image_recs,
                    accepted, n_rec, n_read >>
    /\ UNCHANGED aux_vars

\* Lines 157-165: write_bulk succeeds.
SendOk ==
    /\ pc = "SendBlock"
    /\ blk_io' = Append(blk_io, [op |-> "write", ok |-> TRUE,
                                 buf |-> SendBuffer(fw_header, seq_num, data_buf)])
    /\ n_write' = n_write + 1
    /\ pc' = "AwaitAck"
    /\ UNCHANGED << fw, reader, seq_num, retries, data_len, fw_header, data_buf, recv_buffer,
                    result, image_recs, accepted, n_rec, n_read, n_fail >>
    /\ UNCHANGED aux_vars

\* Lines 173-180: read_bulk returns an error.
RecvFail ==
    /\ pc = "AwaitAck"
    /\ blk_io' = Append(blk_io, [op |-> "read", ok |-> FALSE, buf |-> <<>>])
    /\ n_read' = n_read + 1
    /\ recv_buffer' = Zeros(FWSyncHeader_size)
    /\ TransportFailure
    /\ UNCHANGED << fw, reader, data_len, fw_header, data_buf, image_recs, accepted,
                    n_rec, n_write >>
    /\ UNCHANGED aux_vars

\* Lines 173-200: read_bulk succeeds, the sync header is decoded and classified.
RecvOk ==
    /\ pc = "AwaitAck"
    /\ \E resp \in DeviceResponses :
          LET buf == RecvBuffer(resp)
              sync_header == FWSyncHeader_read(buf)
              verdict == AckVerdict(sync_header, seq_num, fw_header)
          IN  /\ recv_buffer' = buf
              /\ blk_io' = Append(blk_io, [op |-> "read", ok |-> TRUE, buf |-> resp])
              /\ n_read' = n_read + 1
              /\ IF verdict = "Accept"
                 THEN /\ retries' = RetriesAfterAccept(retries)
                      /\ seq_num' = NextSeq(seq_num)
                      /\ pc' = "ReadRecord"
                      /\ result' = result
                      /\ accepted' = Append(accepted, blk_io[Len(blk_io)].buf)
                 ELSE IF verdict = "Done"
                 THEN /\ pc' = "Done"
                      /\ result' = "Ok"
                      /\ accepted' = Append(accepted, blk_io[Len(blk_io)].buf)
                      /\ UNCHANGED << retries, seq_num >>
                 ELSE /\ pc' = "Failed"
                      /\ result' = verdict
                      /\ UNCHANGED << retries, seq_num, accepted >>
    /\ UNCHANGED << fw, reader, data_len, fw_header, data_buf, image_recs,
                    n_rec, n_write, n_fail >>
    /\ UNCHANGED aux_vars

Next == ReadRecord \/ SendFail \/ SendOk \/ RecvFail \/ RecvOk

Spec == Init /\ [][Next]_vars

(***************************************************************************)
(* check_chip_rev and download_fw.                                         *)
(*                                                                         *)
(* The extension word 0xAB950001 does not fit the model checker's          *)
(* integers, so the u32 fields of UsbAckPkt are kept as two 16-bit halves. *)
(***************************************************************************)
EXTEND_HDR == 43925

EXTEND_V1 == 1

USB8797_A0 == 0

CHIP_REV_TX_BUF_SIZE_short == 16 - 8

CHIP_REV_TX_BUF_SIZE == 16

UsbAckPkt_size == 16

MaxDlRecords == 2

\* A u32 as its halves.
Wide(n) == [hi |-> n \div 65536, lo |-> n % 65536]

\* binrw little-endian u32, read into halves and written from them.
W32Read(bs, off) ==
    [hi |-> bs[off + 3] + 256 * bs[off + 4], lo |-> bs[off + 1] + 256 * bs[off + 2]]

W32Write(w) == << w.lo % 256, w.lo \div 256, w.hi % 256, w.hi \div 256 >>

\* x << 16 on a u32: the low half moves up, the high half is shifted out.
Shl16(w) == [hi |-> w.lo, lo |-> 0]

RECURSIVE BitOr(_, _)
BitOr(a, b) ==
    IF a = 0 THEN b
    ELSE IF b = 0 THEN a
    ELSE (IF a % 2 = 1 \/ b % 2 = 1 THEN 1 ELSE 0) + 2 * BitOr(a \div 2, b \div 2)

WideOr(v, w) == [hi |-> BitOr(v.hi, w.hi), lo |-> BitOr(v.lo, w.lo)]

\* Line 207: (EXTEND_HDR << 16) | EXTEND_V1.
ExpectedExtend == WideOr(Shl16(Wide(EXTEND_HDR)), Wide(EXTEND_V1))

\* UsbAckPkt::read and UsbAckPkt::write: four u32 fields in declaration order.
UsbAckPkt_read(bs) ==
    [ack_winner |-> W32Read(bs, 0), seq |-> W32Read(bs, 4),
     extend |-> W32Read(bs, 8), chip_rev |-> W32Read(bs, 12)]

UsbAckPkt_write(k) ==
    W32Write(k.ack_winner) \o W32Write(k.seq) \o W32Write(k.extend) \o W32Write(k.chip_rev)

\* Lines 209-211: a zeroed buffer into which read_bulk stored resp.
ProbeRecvBuffer(resp) ==
    [i \in 1..UsbAckPkt_size |-> IF i <= Len(resp) THEN resp[i] ELSE 0]

\* Line 216 comparing the header half of the extension word only.
ExtendMatches_hdr(pkt) == pkt.extend.hi = EXTEND_HDR

\* Line 216.
ExtendMatches(pkt) == pkt.extend = ExpectedExtend

\* Lines 216-220: the revision printed.
ChipRevReport(pkt) ==
    IF ExtendMatches(pkt)
    THEN [reported |-> TRUE, from_response |-> TRUE, rev |-> pkt.chip_rev]
    ELSE [reported |-> TRUE, from_response |-> FALSE, rev |-> Wide(USB8797_A0)]

\* Answers of the device to the probe.
ProbeExtends == { <<1, 0, 149, 171>>, <<0, 0, 149, 171>>, <<1, 0, 0, 0>>, <<0, 0, 0, 0>> }

ProbeRevs == { <<16, 0, 128, 3>>, <<0, 0, 0, 0>> }

ProbeLens == {0, UsbAckPkt_size}

ProbeResponses ==
    { SubSeq(<<0, 0, 0, 0, 0, 0, 0, 0>> \o x \o r, 1, n) :
        x \in ProbeExtends, r \in ProbeRevs, n \in ProbeLens }

\* download_fw entered (line 225): nothing read, nothing opened.
InitDl ==
    /\ image_recs = <<>>
    /\ fw = <<>>
    /\ reader = 0
    /\ seq_num = 0
    /\ retries = MAX_FW_RETRY
    /\ data_len = 0
    /\ fw_header = NoHeader
    /\ data_buf = <<>>
    /\ recv_buffer = Zeros(FWSyncHeader_size)
    /\ pc = "ReadFw"
    /\ result = "Running"
    /\ accepted = <<>>
    /\ blk_io = <<>>
    /\ n_rec = 0
    /\ n_write = 0
    /\ n_read = 0
    /\ n_fail = 0
    /\ probe_io = <<>>
    /\ chip_rev = NoReport
    /\ codec = NoCodec

xfer_vars == << fw, reader, seq_num, retries, data_len, fw_header, data_buf, recv_buffer,
                image_recs, accepted, blk_io, n_rec, n_write, n_read, n_fail >>

dl_vars == << reader, seq_num, retries, data_len, fw_header, data_buf, recv_buffer,
              accepted, blk_io, n_rec, n_write, n_read, n_fail, probe_io, chip_rev, codec >>

\* Line 227: read_fw fails, `?` returns the error.
ReadFwFail ==
    /\ pc = "ReadFw"
    /\ pc' = "Failed"
    /\ result' = "ReadFwError"
    /\ UNCHANGED << fw, image_recs, dl_vars >>

\* Lines 227-228: read_fw returns the bytes of the image file.
ReadFwOk ==
    /\ pc = "ReadFw"
    /\ \E ks \in KindSeqs, cut \in Cuts :
          /\ Len(ks) <= MaxDlRecords
          /\ cut <= Len(ImageUpTo(ks, Len(ks)))
          /\ image_recs' = ks
          /\ fw' = ImageBytes(ks, cut)
    /\ pc' = "Open"
    /\ UNCHANGED << result, dl_vars >>

\* Line 230: device.open() fails, `?` returns the error.
OpenFail ==
    /\ pc = "Open"
    /\ pc' = "Failed"
    /\ result' = "OpenError"
    /\ UNCHANGED << fw, image_recs, dl_vars >>

\* Line 230: device.open() succeeds.
OpenOk ==
    /\ pc = "Open"
    /\ pc' = "ClaimInterface"
    /\ UNCHANGED << fw, image_recs, result, dl_vars >>

\* Lines 233-235: the outcome of set_auto_detach_kernel_driver is dropped;
\* claim_interface fails, `?` returns the error.
ClaimInterfaceFail ==
    /\ pc = "ClaimInterface"
    /\ pc' = "Failed"
    /\ result' = "ClaimInterfaceError"
    /\ UNCHANGED << fw, image_recs, dl_vars >>

\* Lines 233-235: claim_interface succeeds; check_chip_rev is called (line 237).
ClaimInterfaceOk ==
    /\ pc = "ClaimInterface"
    /\ pc' = "ProbeWrite"
    /\ UNCHANGED << fw, image_recs, result, dl_vars >>

\* Line 240, after program_fw returned Ok: release_interface fails, `?` returns the error.
ReleaseInterfaceFail ==
    /\ pc = "Done"
    /\ pc' = "Failed"
    /\ result' = "ReleaseInterfaceError"
    /\ UNCHANGED << fw, image_recs, dl_vars >>

\* Lines 240-244, after program_fw returned Ok: release_interface succeeds and
\* download_fw returns Ok.
ReleaseInterfaceOk ==
    /\ pc = "Done"
    /\ pc' = "Returned"
    /\ UNCHANGED << fw, image_recs, result, dl_vars >>

\* Line 210: write_bulk fails, `?` returns the error, download_fw returns it (line 237).
ProbeWriteFail ==
    /\ pc = "ProbeWrite"
    /\ probe_io' = Append(probe_io, [op |-> "write", ok |-> FALSE,
                                     buf |-> Zeros(CHIP_REV_TX_BUF_SIZE)])
    /\ pc' = "Failed"
    /\ result' = "ProbeTransportError"
    /\ UNCHANGED << xfer_vars, chip_rev, codec >>

\* Lines 207-210: write_bulk succeeds.
ProbeWriteOk ==
    /\ pc = "ProbeWrite"
    /\ probe_io' = Append(probe_io, [op |-> "write", ok |-> TRUE,
                                     buf |-> Zeros(CHIP_REV_TX_BUF_SIZE)])
    /\ pc' = "ProbeRead"
    /\ UNCHANGED << xfer_vars, result, chip_rev, codec >>

\* Line 211: read_bulk fails, `?` returns the error, download_fw returns it (line 237).
ProbeReadFail ==
    /\ pc = "ProbeRead"
    /\ probe_io' = Append(probe_io, [op |-> "read", ok |-> FALSE, buf |-> <<>>])
    /\ pc' = "Failed"
    /\ result' = "ProbeTransportError"
    /\ UNCHANGED << xfer_vars, chip_rev, codec >>

\* Lines 211-222, then line 238: the response is decoded, the revision reported,
\* and program_fw is entered.
ProbeReadOk ==
    /\ pc = "ProbeRead"
    /\ \E resp \in ProbeResponses :
          /\ probe_io' = Append(probe_io, [op |-> "read", ok |-> TRUE, buf |-> resp])
          /\ chip_rev' = ChipRevReport(UsbAckPkt_read(ProbeRecvBuffer(resp)))
    /\ pc' = "ReadRecord"
    /\ UNCHANGED << xfer_vars, result, codec >>

NextDl ==
    \/ ReadFwFail \/ ReadFwOk \/ OpenFail \/ OpenOk
    \/ ClaimInterfaceFail \/ ClaimInterfaceOk
    \/ ProbeWriteFail \/ ProbeWriteOk \/ ProbeReadFail \/ ProbeReadOk
    \/ ReadRecord \/ SendFail \/ SendOk \/ RecvFail \/ RecvOk
    \/ ReleaseInterfaceFail \/ ReleaseInterfaceOk

SpecDl == InitDl /\ [][NextDl]_vars

(***************************************************************************)
(* The binrw codecs of the four wire structures on their own: a value is   *)
(* written to bytes, and the bytes are read back.  u32 fields of FWHeader, *)
(* FWData and FWSyncHeader range over values below 2^31; the fields of     *)
(* UsbAckPkt are halves and cover the full width.                          *)
(***************************************************************************)
U32Samples == {0, 1, 67305985, 2147483647}

WideSamples == { [hi |-> 0, lo |-> 0], [hi |-> 43925, lo |-> 1],
                 [hi |-> 258, lo |-> 772], [hi |-> 65535, lo |-> 65535] }

FWHeaderValues ==
    [dnld_cmd : U32Samples, base_addr : U32Samples, data_length : U32Samples, crc : U32Samples]

CodecKinds == {"FWHeader", "FWData", "FWSyncHeader", "UsbAckPkt"}

CodecValues(kind) ==
    CASE kind = "FWHeader" -> FWHeaderValues
      [] kind = "FWData" -> [fw_header : FWHeaderValues, seq_num : U32Samples]
      [] kind = "FWSyncHeader" -> [cmd : U32Samples, seq_num : U32Samples]
      [] kind = "UsbAckPkt" ->
            [ack_winner : WideSamples, seq : WideSamples,
             extend : WideSamples, chip_rev : WideSamples]

\* <struct>::write into an empty cursor.
Encode(kind, x) ==
    CASE kind = "FWHeader" -> FWHeader_write(x)
      [] kind = "FWData" -> FWData_write(x.fw_header, x.seq_num)
      [] kind = "FWSyncHeader" -> FWSyncHeader_write(x)
      [] kind = "UsbAckPkt" -> UsbAckPkt_write(x)

\* <struct>::read from a cursor at the start of bs.
Decode(kind, bs) ==
    CASE kind = "FWHeader" -> FWHeader_read(bs, 0).hdr
      [] kind = "FWData" -> FWData_read(bs)
      [] kind = "FWSyncHeader" -> FWSyncHeader_read(bs)
      [] kind = "UsbAckPkt" -> UsbAckPkt_read(bs)

InitCodec ==
    /\ fw = <<>>
    /\ image_recs = <<>>
    /\ reader = 0
    /\ seq_num = 0
    /\ retries = MAX_FW_RETRY
    /\ data_len = 0
    /\ fw_header = NoHeader
    /\ data_buf = <<>>
    /\ recv_buffer = Zeros(FWSyncHeader_size)
    /\ pc = "Codec"
    /\ result = "Running"
    /\ accepted = <<>>
    /\ blk_io = <<>>
    /\ n_rec = 0
    /\ n_write = 0
    /\ n_read = 0
    /\ n_fail = 0
    /\ probe_io = <<>>
    /\ chip_rev = NoReport
    /\ codec = NoCodec

CodecEncode ==
    /\ pc = "Codec"
    /\ codec.stage = "idle"
    /\ \E kind \in CodecKinds : \E x \in CodecValues(kind) :
          codec' = [stage |-> "encoded", kind |-> kind, x |-> x, bytes |-> Encode(kind, x)]
    /\ UNCHANGED << xfer_vars, pc, result, probe_io, chip_rev >>

CodecDecode ==
    /\ pc = "Codec"
    /\ codec.stage = "encoded"
    /\ codec' = [stage |-> "decoded", kind |-> codec.kind, x |-> codec.x,
                 bytes |-> codec.bytes, y |-> Decode(codec.kind, codec.bytes)]
    /\ UNCHANGED << xfer_vars, pc, result, probe_io, chip_rev >>

NextCodec == CodecEncode \/ CodecDecode

SpecCodec == InitCodec /\ [][NextCodec]_vars

(***************************************************************************)
(* What the image holds, from the records it was built from.               *)
(***************************************************************************)
\* Offset of the first byte after the i-th record of the uncut image.
ImageEnd(ks, i) == Len(ImageUpTo(ks, i))

\* Records that lie wholly inside the (possibly cut) image.
CompleteRecords == { i \in 1..Len(image_recs) : ImageEnd(image_recs, i) <= Len(fw) }

\* The bulk-out transfer expected for the i-th record: header as stored,
\* sequence number i-1, payload as stored.
ExpectedFrame(ks, i) ==
    FWHeader_write(ImageHeader(ks, i)) \o U32Write(i - 1) \o ImagePayload(ks, i)

BlkWrites == { i \in DOMAIN blk_io : blk_io[i].op = "write" }

BlkReads == { i \in DOMAIN blk_io : blk_io[i].op = "read" }

BlkFails == { i \in DOMAIN blk_io : ~blk_io[i].ok }

\* The last bulk call of the current record was a read that delivered an ack.
AckJustRead ==
    /\ Len(blk_io) >= 2
    /\ blk_io[Len(blk_io)].op = "read"
    /\ blk_io[Len(blk_io)].ok
    /\ blk_io[Len(blk_io) - 1].op = "write"
    /\ blk_io[Len(blk_io) - 1].ok

\* The sequence number carried by the frame written last.
SeqOfLastWrite == U32Read(blk_io[Len(blk_io) - 1].buf, 16)

(***************************************************************************)
(* C1: program_fw returns Ok only after the record carrying the last-block *)
(* sentinel 0x4 was sent and acknowledged, all records before it having    *)
(* been sent and acknowledged in image order; it is the first record with  *)
(* the sentinel, say the N-th, and in a run without transport failures     *)
(* exactly N bulk-out writes and N bulk-in reads were made.                *)
(***************************************************************************)
C1_DoneOnlyAfterSentinel ==
    pc = "Done" =>
        LET N == Len(accepted) IN
        /\ result = "Ok"
        /\ N >= 1
        /\ N \in CompleteRecords
        /\ image_recs[N].cmd = 4
        /\ \A i \in 1..(N - 1) : image_recs[i].cmd # 4
        /\ \A i \in 1..N : accepted[i] = ExpectedFrame(image_recs, i)
        /\ AckJustRead
        /\ U32Read(recv_buffer, 0) = 0
        /\ U32Read(recv_buffer, 4) = N - 1
        /\ (n_fail = 0 => n_write = N /\ n_read = N)

C1_Witness ==
    /\ pc = "Done"
    /\ Len(accepted) = 3
    /\ n_fail = 0
    /\ n_write = 3
    /\ n_read = 3

(***************************************************************************)
(* C2: whenever a block has just been accepted (the engine moved on to     *)
(* the next record or returned Ok), the ack decoded last carries the       *)
(* sequence number that was written with that block.                       *)
(***************************************************************************)
C2_AcceptedAckEchoesSeq ==
    (pc \in {"ReadRecord", "Done"} /\ accepted # <<>>) =>
        /\ AckJustRead
        /\ blk_io[Len(blk_io) - 1].buf = accepted[Len(accepted)]
        /\ U32Read(recv_buffer, 4) = SeqOfLastWrite
        /\ U32Read(RecvBuffer(blk_io[Len(blk_io)].buf), 4) = SeqOfLastWrite
        /\ SeqOfLastWrite = Len(accepted) - 1

C2_Witness ==
    /\ pc = "ReadRecord"
    /\ Len(accepted) = 2
    /\ AckJustRead
    /\ Len(blk_io[Len(blk_io)].buf) = 8
    /\ U32Read(recv_buffer, 4) = 1

(***************************************************************************)
(* C3: the sequence counter equals the number of blocks accepted so far    *)
(* in every state, the Failed states included: it moves only when a block  *)
(* is accepted, and not when the retry budget runs out.  (The Done state   *)
(* is left aside: there the final block has been acknowledged and the      *)
(* counter keeps that block's number.)                                     *)
(***************************************************************************)
C3_CounterCountsAccepted ==
    pc # "Done" => seq_num = Len(accepted)

(***************************************************************************)
(* C4: every bulk-out write made for the k-th record of the image          *)
(* (counting from 0) carries sequence number k together with that          *)
(* record's header and payload, so a retransmission after a send or        *)
(* receive failure is byte for byte the first transmission.                *)
(***************************************************************************)
C4_RecordKSentWithSeqK ==
    /\ \A i \in BlkWrites :
          /\ n_rec >= 1
          /\ blk_io[i].buf = ExpectedFrame(image_recs, n_rec)
          /\ U32Read(blk_io[i].buf, 16) = n_rec - 1
    /\ \A i, j \in BlkWrites : blk_io[i].buf = blk_io[j].buf
    /\ \A i \in DOMAIN accepted : accepted[i] = ExpectedFrame(image_recs, i)

C4_Witness ==
    /\ n_rec = 2
    /\ Len(blk_io) = 4
    /\ blk_io[1].op = "write" /\ ~blk_io[1].ok
    /\ blk_io[2].op = "write" /\ blk_io[2].ok
    /\ blk_io[3].op = "read" /\ ~blk_io[3].ok
    /\ blk_io[4].op = "write" /\ blk_io[4].ok
    /\ Len(data_buf) = 2

(***************************************************************************)
(* C5: the retry budget stays within 0..3; within one block it is 3 minus  *)
(* the number of failed bulk calls of that block, send and receive         *)
(* failures alike; the transfer fails with ExhaustedRetries exactly when   *)
(* 3 bulk calls of the block have failed; and after an accepted block the  *)
(* budget is 3 again whatever failed before.                               *)
(***************************************************************************)
C5_RetryBudget ==
    /\ retries \in 0..3
    /\ pc \in {"SendBlock", "AwaitAck"} =>
          /\ retries = 3 - Cardinality(BlkFails)
          /\ retries > 0
    /\ (result = "ExhaustedRetries") <=> (Cardinality(BlkFails) = 3)
    /\ result = "ExhaustedRetries" => (pc = "Failed" /\ retries = 0)
    /\ pc = "ReadRecord" => retries = 3

C5_Witness ==
    /\ pc = "SendBlock"
    /\ n_rec = 2
    /\ n_fail = 4
    /\ retries = 1
    /\ \E i, j \in BlkFails : blk_io[i].op = "write" /\ blk_io[j].op = "read"

\* Every bulk-in read made for the current record has failed, and no write has.
ReadsAllTimedOut ==
    /\ BlkReads # {}
    /\ \A i \in BlkReads : ~blk_io[i].ok
    /\ \A i \in BlkWrites : blk_io[i].ok

(***************************************************************************)
(* C6 as stated: when every bulk-in read of a block times out, the engine  *)
(* gives up with ExhaustedRetries after four timeouts (the first attempt   *)
(* and three retries).                                                     *)
(***************************************************************************)
C6_FourTimeoutsBeforeAbort ==
    (result = "ExhaustedRetries" /\ ReadsAllTimedOut) =>
        (Cardinality(BlkReads) = 4 /\ Cardinality(BlkWrites) = 4)

(***************************************************************************)
(* C6 amended: when every bulk-in read of a block times out, the engine    *)
(* gives up with ExhaustedRetries at the third timeout (the first attempt  *)
(* and two retries); before the third it is still retrying, and a fourth   *)
(* read of that block is never made.                                       *)
(***************************************************************************)
C6_ThreeTimeoutsAbort ==
    ReadsAllTimedOut =>
        /\ Cardinality(BlkReads) <= 3
        /\ Cardinality(BlkReads) = 3 =>
              (pc = "Failed" /\ result = "ExhaustedRetries" /\ Cardinality(BlkWrites) = 3)
        /\ Cardinality(BlkReads) < 3 =>
              (pc \in {"SendBlock", "AwaitAck"} /\ result = "Running")

C6_Witness ==
    /\ result = "ExhaustedRetries"
    /\ ReadsAllTimedOut
    /\ Cardinality(BlkReads) = 3
    /\ n_rec = 2

\* An ack with status_command > 0 was read last: the transfer has failed with the CRC error.
C7_CrcErrorState ==
    (AckJustRead /\ U32Read(recv_buffer, 0) > 0) =>
        (pc = "Failed" /\ result = "DeviceCrcError")

(***************************************************************************)
(* C7: once an ack with status_command > 0 has been read, the transfer     *)
(* has failed with the device CRC error, whatever the retry budget left    *)
(* and whatever sequence number the ack carries, and no bulk call follows. *)
(***************************************************************************)
C7_CrcErrorIsFatal ==
    /\ []C7_CrcErrorState
    /\ [][result = "DeviceCrcError" => (n_write' = n_write /\ n_read' = n_read)]_vars

C7_Witness ==
    /\ result = "DeviceCrcError"
    /\ U32Read(recv_buffer, 4) # seq_num
    /\ retries = 2
    /\ n_rec = 1

\* An ack with status_command = 0 and a foreign sequence number was read last.
C8_MismatchState ==
    (/\ AckJustRead
     /\ U32Read(recv_buffer, 0) = 0
     /\ U32Read(recv_buffer, 4) # SeqOfLastWrite) =>
        /\ pc = "Failed"
        /\ result = "SequenceMismatch"
        /\ retries = 3 - Cardinality(BlkFails)
        /\ retries > 0
        /\ seq_num = SeqOfLastWrite
        /\ Len(accepted) = n_rec - 1

(***************************************************************************)
(* C8: once an ack with status_command = 0 and a sequence number other     *)
(* than the one written has been read, the transfer has failed with        *)
(* SequenceMismatch: the block is not accepted, the budget is what the     *)
(* transport failures of the block left, the counter has not moved and no  *)
(* bulk call follows; the same when the block carries the sentinel.        *)
(***************************************************************************)
C8_SequenceMismatchIsFatal ==
    /\ []C8_MismatchState
    /\ [][result = "SequenceMismatch" => (n_write' = n_write /\ n_read' = n_read)]_vars

C8_Witness ==
    /\ result = "SequenceMismatch"
    /\ fw_header.dnld_cmd = 4
    /\ U32Read(recv_buffer, 4) = 5
    /\ seq_num = 0
    /\ retries = 3

\* Offset in the image of the header of the current record.
RecordStart == reader - 16 - Len(data_buf)

(***************************************************************************)
(* C9 (of the record read last, while no record was found cut short):     *)
(* a CMD7 record is sent with an empty payload whatever its                *)
(* data_length says, and the cursor moves past its 16 header bytes only,   *)
(* so the next record starts right behind that header; any other record    *)
(* is read and sent with exactly data_length payload bytes.                *)
(***************************************************************************)
C9_Cmd7HasNoPayload ==
    (n_rec >= 1 /\ result # "TruncatedImage") =>
        /\ RecordStart = ImageEnd(image_recs, n_rec - 1)
        /\ (n_rec >= 2 /\ image_recs[n_rec - 1].cmd = 7) =>
              RecordStart = ImageEnd(image_recs, n_rec - 2) + 16
        /\ fw_header = ImageHeader(image_recs, n_rec)
        /\ fw_header.dnld_cmd = 7 => (data_buf = <<>> /\ reader = RecordStart + 16)
        /\ fw_header.dnld_cmd # 7 =>
              /\ Len(data_buf) = fw_header.data_length
              /\ \A i \in 1..Len(data_buf) : data_buf[i] = fw[RecordStart + 16 + i]
        /\ data_len = Len(data_buf)
        /\ \A i \in BlkWrites :
              /\ Len(blk_io[i].buf) = 20 + Len(data_buf)
              /\ SubSeq(blk_io[i].buf, 21, Len(blk_io[i].buf)) = data_buf

C9_Witness ==
    /\ n_rec = 2
    /\ image_recs[1].cmd = 7
    /\ image_recs[1].len = 2
    /\ Len(accepted) = 1
    /\ Len(accepted[1]) = 20
    /\ pc = "AwaitAck"
    /\ fw_header.dnld_cmd = 1
    /\ Len(data_buf) = 2

\* The record at the cursor is not wholly inside the image.
NextIncomplete == (n_rec + 1) \notin CompleteRecords

\* Only complete records are read and sent; Done needs a complete sentinel record.
C10_TruncatedState ==
    /\ n_rec \in CompleteRecords \cup {0}
    /\ BlkWrites # {} => n_rec \in CompleteRecords
    /\ result = "TruncatedImage" => (pc = "Failed" /\ NextIncomplete /\ blk_io = <<>>)
    /\ (\A i \in CompleteRecords : image_recs[i].cmd # 4) => pc # "Done"

(***************************************************************************)
(* C10: when the record at the cursor is not wholly inside the image (no   *)
(* byte left, fewer than 16 header bytes, or fewer payload bytes than the  *)
(* effective length), the transfer fails there without a bulk call for     *)
(* that record; only complete records are ever sent, and an image with no  *)
(* complete sentinel record never ends in Done.                            *)
(***************************************************************************)
C10_TruncatedImageFails ==
    /\ []C10_TruncatedState
    /\ [][(pc = "ReadRecord" /\ NextIncomplete) =>
             /\ pc' = "Failed"
             /\ result' = "TruncatedImage"
             /\ n_write' = n_write
             /\ n_read' = n_read]_vars

C10_Witness ==
    /\ result = "TruncatedImage"
    /\ Len(accepted) = 2
    /\ n_rec = 2
    /\ Len(fw) - ImageEnd(image_recs, 2) >= 16
    /\ fw_header = ImageHeader(image_recs, 3)
    /\ reader = Len(fw)

\* check_chip_rev was called and has returned, with a result or an error.
ProbeOver == probe_io # <<>> /\ pc \notin {"ProbeWrite", "ProbeRead"}

\* Both bulk calls of the probe were made and succeeded.
ProbeCompleted ==
    /\ Len(probe_io) = 2
    /\ probe_io[1].ok
    /\ probe_io[2].ok

(***************************************************************************)
(* C11: the probe does not gate the transfer: once the probe is over,      *)
(* whatever came of it (magic matching or not, or a bulk call of the probe *)
(* failing), the download has not been given up because of the probe, and  *)
(* the engine goes on to the transfer.                                     *)
(***************************************************************************)
C11_ProbeNeverGates ==
    ProbeOver => result # "ProbeTransportError"

\* The response holds the extension word 0xAB950001, little-endian.
ProbeMagicSeen ==
    /\ Len(probe_io) = 2
    /\ Len(probe_io[2].buf) >= 12
    /\ SubSeq(probe_io[2].buf, 9, 12) = <<1, 0, 149, 171>>

(***************************************************************************)
(* C12: the probe reports a revision exactly when its read succeeded; the  *)
(* revision is the response's chip_revision if and only if the response's  *)
(* extend_magic is 0xAB950001, and is USB8797_A0 (zero), not taken from    *)
(* the response, for every other extend_magic.                             *)
(***************************************************************************)
C12_RevisionTrustedIffMagic ==
    /\ chip_rev.reported <=> (Len(probe_io) = 2 /\ probe_io[2].ok)
    /\ chip_rev.reported =>
          /\ chip_rev.from_response <=> ProbeMagicSeen
          /\ ProbeMagicSeen =>
                /\ Len(probe_io[2].buf) = 16
                /\ chip_rev.rev.lo = probe_io[2].buf[13] + 256 * probe_io[2].buf[14]
                /\ chip_rev.rev.hi = probe_io[2].buf[15] + 256 * probe_io[2].buf[16]
          /\ ~ProbeMagicSeen => chip_rev.rev = [hi |-> 0, lo |-> 0]

C12_Witness ==
    /\ chip_rev.reported
    /\ chip_rev.from_response
    /\ chip_rev.rev = [hi |-> 896, lo |-> 16]
    /\ pc = "ReadRecord"

(***************************************************************************)
(* C18: the probe is one exchange made before the transfer: one bulk-out   *)
(* write of 16 zero bytes, then at most one bulk-in read and only after    *)
(* the write succeeded; a failed probe call is not repeated and ends the   *)
(* invocation; and no record is read and no firmware block written unless  *)
(* both probe calls have succeeded.                                        *)
(***************************************************************************)
C18_ProbeOneShotFirst ==
    /\ Len(probe_io) <= 2
    /\ pc = "ProbeWrite" => probe_io = <<>>
    /\ probe_io = <<>> =>
          (\/ pc \in {"ReadFw", "Open", "ClaimInterface", "ProbeWrite"}
           \/ (pc = "Failed" /\ result \in {"ReadFwError", "OpenError", "ClaimInterfaceError"}))
    /\ (pc = "ProbeRead") <=> (Len(probe_io) = 1 /\ probe_io[1].ok)
    /\ Len(probe_io) >= 1 =>
          /\ probe_io[1].op = "write"
          /\ probe_io[1].buf = <<0, 0, 0, 0, 0, 0, 0, 0, 0, 0, 0, 0, 0, 0, 0, 0>>
    /\ Len(probe_io) = 2 => (probe_io[2].op = "read" /\ probe_io[1].ok)
    /\ (\E i \in DOMAIN probe_io : ~probe_io[i].ok) =>
          /\ pc = "Failed"
          /\ ~probe_io[Len(probe_io)].ok
          /\ n_rec = 0 /\ n_write = 0 /\ n_read = 0
    /\ (\/ pc \in {"ReadRecord", "SendBlock", "AwaitAck", "Done", "Returned"}
        \/ n_rec > 0 \/ n_write > 0 \/ n_read > 0
        \/ result \notin {"Running", "ProbeTransportError", "ReadFwError", "OpenError",
                           "ClaimInterfaceError"}) => ProbeCompleted

C18_Witness ==
    /\ ProbeCompleted
    /\ n_write = 1
    /\ n_read = 0
    /\ pc = "AwaitAck"

\* program_fw keeps running until it returns: the loop of lines 137-201 has no
\* blocking point other than the bulk calls, each of which returns within its timeout.
FairSpec == Spec /\ WF_vars(Next)

Terminated == pc \in {"Done", "Failed"}

\* A bound on the steps left before program_fw returns: two bulk calls for every
\* attempt the budget still allows on the current record, and the read of a record
\* plus six bulk calls for every header that still fits the bytes behind the cursor.
StepsLeft ==
    (IF pc = "SendBlock" THEN 2 * retries
     ELSE IF pc = "AwaitAck" THEN 2 * retries - 1
     ELSE 0)
    + (IF Terminated THEN 0 ELSE 1 + 7 * ((Len(fw) - reader) \div 16 + 1))

(***************************************************************************)
(* C13: program_fw always reaches Done or Failed, whatever the image and   *)
(* whatever the device and the transport do; it makes at most 3 bulk-out   *)
(* writes for one record, and every step brings the end nearer.            *)
(***************************************************************************)
C13_Terminates ==
    /\ [](Cardinality(BlkWrites) <= 3 /\ StepsLeft >= 0)
    /\ [][StepsLeft' < StepsLeft]_vars
    /\ <>Terminated

C13_Witness ==
    /\ pc = "Failed"
    /\ result = "ExhaustedRetries"
    /\ Cardinality(BlkWrites) = 3
    /\ Len(accepted) = 2

\* The ack read last is in order: status_command 0 and the sequence number written.
GoodAckRead ==
    /\ AckJustRead
    /\ U32Read(recv_buffer, 0) = 0
    /\ U32Read(recv_buffer, 4) = SeqOfLastWrite

\* What holds of the bulk calls of one record when only transport failures are retried.
C14_RetriesOnlyAfterFailure ==
    /\ \A i \in BlkWrites : i > 1 => ~blk_io[i - 1].ok
    /\ \A i \in BlkReads : blk_io[i].ok => i = Len(blk_io)
    /\ Cardinality(BlkWrites) <= 1 + Cardinality(BlkFails)
    /\ result \in {"DeviceCrcError", "SequenceMismatch"} =>
          (pc = "Failed" /\ AckJustRead /\ ~GoodAckRead)
    /\ result = "TruncatedImage" => (pc = "Failed" /\ blk_io = <<>>)

(***************************************************************************)
(* C14: a record is written again only after a bulk call of that record    *)
(* failed; an ack that is read and is not in order (CRC error, sequence    *)
(* mismatch) and a record that is not wholly in the image end the transfer *)
(* in Failed in that very step, and once the transfer has ended no bulk    *)
(* call is made.                                                           *)
(***************************************************************************)
C14_OnlyTransportFailuresRetried ==
    /\ []C14_RetriesOnlyAfterFailure
    /\ [][(pc = "AwaitAck" /\ AckJustRead' /\ ~GoodAckRead') =>
             (pc' = "Failed" /\ result' \in {"DeviceCrcError", "SequenceMismatch"})]_vars
    /\ [][(pc = "ReadRecord" /\ NextIncomplete) =>
             (pc' = "Failed" /\ result' = "TruncatedImage")]_vars
    /\ [][result # "Running" => (n_write' = n_write /\ n_read' = n_read)]_vars

C14_Witness ==
    /\ result = "DeviceCrcError"
    /\ Cardinality(BlkFails) = 2
    /\ Cardinality(BlkWrites) = 3
    /\ U32Read(recv_buffer, 4) = SeqOfLastWrite
    /\ n_rec = 2

(***************************************************************************)
(* C15: a bulk-in read that delivered fewer than the 8 bytes of a sync     *)
(* header is never taken for an accepted ack: after every accept the       *)
(* response read last held at least 8 bytes.                               *)
(***************************************************************************)
C15_ShortAckNeverAccepted ==
    (pc \in {"ReadRecord", "Done"} /\ accepted # <<>>) =>
        Len(blk_io[Len(blk_io)].buf) >= 8

(***************************************************************************)
(* C17: a block is final exactly when its download_command is 0x4: after   *)
(* an ack in order the transfer is Done if the record's command is 0x4,    *)
(* and otherwise (0x5 and CMD7 0x7, which have bit 2 set, included) the    *)
(* block is accepted and the engine goes on to the next record.            *)
(***************************************************************************)
C17_FinalIffExactlySentinel ==
    /\ GoodAckRead =>
          /\ (pc = "Done") <=> (image_recs[n_rec].cmd = 4)
          /\ image_recs[n_rec].cmd # 4 =>
                (pc = "ReadRecord" /\ result = "Running" /\ Len(accepted) = n_rec)
    /\ pc = "Done" => (fw_header.dnld_cmd = 4 /\ GoodAckRead)

C17_Witness ==
    /\ GoodAckRead
    /\ pc = "ReadRecord"
    /\ n_rec = 2
    /\ image_recs[1].cmd = 7
    /\ image_recs[2].cmd = 5

\* What holds of the bulk calls of one record under stop-and-wait.
C19_OneOutstanding ==
    /\ \A i \in BlkReads : (i > 1 /\ blk_io[i - 1].op = "write" /\ blk_io[i - 1].ok)
    /\ \A i \in BlkWrites : (blk_io[i].ok /\ i < Len(blk_io)) => blk_io[i + 1].op = "read"
    /\ \A i \in DOMAIN blk_io : (~blk_io[i].ok /\ i < Len(blk_io)) => blk_io[i + 1].op = "write"
    /\ pc = "AwaitAck" <=> (blk_io # <<>> /\ blk_io[Len(blk_io)].op = "write"
                            /\ blk_io[Len(blk_io)].ok)

(***************************************************************************)
(* C19: the transfer is stop-and-wait: a bulk-in read is made only right   *)
(* after a successful bulk-out write of the current block, a successful    *)
(* write is followed by nothing but its read, a failed call is followed    *)
(* by a write of the whole block, and the block with sequence number k is  *)
(* written only when exactly k blocks have been accepted.                  *)
(***************************************************************************)
C19_StopAndWait ==
    /\ []C19_OneOutstanding
    /\ [][n_write' = n_write + 1 =>
             /\ pc = "SendBlock"
             /\ U32Read(blk_io'[Len(blk_io')].buf, 16) = Len(accepted)
             /\ n_rec = Len(accepted) + 1]_vars
    /\ [][n_read' = n_read + 1 =>
             (blk_io # <<>> /\ blk_io[Len(blk_io)].op = "write" /\ blk_io[Len(blk_io)].ok)]_vars

C19_Witness ==
    /\ Len(blk_io) = 4
    /\ blk_io[1].op = "write" /\ blk_io[1].ok
    /\ blk_io[2].op = "read" /\ ~blk_io[2].ok
    /\ blk_io[3].op = "write" /\ blk_io[3].ok
    /\ blk_io[4].op = "read" /\ blk_io[4].ok
    /\ Len(accepted) = 2
    /\ pc = "ReadRecord"

(***************************************************************************)
(* C20: every bulk-out write of a record is one buffer made of the 16      *)
(* header bytes as they stand in the image (data_length and crc included,  *)
(* for CMD7 too), the sequence number as 4 little-endian bytes, and the    *)
(* payload; it is 20 bytes plus the effective payload length long.         *)
(***************************************************************************)
C20_FrameLayout ==
    \A i \in BlkWrites :
        LET b == blk_io[i].buf
            k == n_rec - 1
        IN  /\ n_rec >= 1
            /\ SubSeq(b, 1, 16) = SubSeq(fw, RecordStart + 1, RecordStart + 16)
            /\ SubSeq(b, 17, 20) = << k % 256, (k \div 256) % 256, 0, 0 >>
            /\ SubSeq(b, 21, Len(b)) = data_buf
            /\ Len(b) = 20 + (IF image_recs[n_rec].cmd = 7 THEN 0 ELSE image_recs[n_rec].len)
            /\ Len(b) = fw_data_xmit_size(data_len)

C20_Witness ==
    /\ pc = "AwaitAck"
    /\ n_rec = 2
    /\ fw_header.dnld_cmd = 7
    /\ fw_header.data_length = 2
    /\ Len(blk_io) = 1
    /\ Len(blk_io[1].buf) = 20
    /\ SubSeq(blk_io[1].buf, 9, 12) = <<2, 0, 0, 0>>
    /\ SubSeq(blk_io[1].buf, 17, 20) = <<1, 0, 0, 0>>

\* The fields of a value of a wire structure, in declaration order.
C16_Fields(kind, x) ==
    CASE kind = "FWHeader" -> << x.dnld_cmd, x.base_addr, x.data_length, x.crc >>
      [] kind = "FWData" -> << x.fw_header.dnld_cmd, x.fw_header.base_addr,
                               x.fw_header.data_length, x.fw_header.crc, x.seq_num >>
      [] kind = "FWSyncHeader" -> << x.cmd, x.seq_num >>
      [] kind = "UsbAckPkt" -> << x.ack_winner, x.seq, x.extend, x.chip_rev >>

\* Byte j (0 the least significant) of a field.
C16_ByteOf(kind, v, j) ==
    IF kind = "UsbAckPkt"
    THEN IF j < 2 THEN (v.lo \div 256 ^ j) % 256 ELSE (v.hi \div 256 ^ (j - 2)) % 256
    ELSE (v \div 256 ^ j) % 256

C16_Width(kind) ==
    CASE kind = "FWHeader" -> 16
      [] kind = "FWData" -> 20
      [] kind = "FWSyncHeader" -> 8
      [] kind = "UsbAckPkt" -> 16

(***************************************************************************)
(* C16: for FWHeader, FWData, FWSyncHeader and UsbAckPkt the encoding of a *)
(* value is 16, 20, 8 and 16 bytes long and holds the fields in            *)
(* declaration order, each as 4 little-endian bytes, and decoding it gives *)
(* the value back.                                                         *)
(***************************************************************************)
C16_RoundTrip ==
    /\ codec.stage \in {"encoded", "decoded"} =>
          /\ Len(codec.bytes) = C16_Width(codec.kind)
          /\ \A i \in 1..Len(codec.bytes) :
                codec.bytes[i] =
                    C16_ByteOf(codec.kind,
                               C16_Fields(codec.kind, codec.x)[(i - 1) \div 4 + 1],
                               (i - 1) % 4)
    /\ codec.stage = "decoded" => codec.y = codec.x

C16_Witness ==
    /\ codec.stage = "decoded"
    /\ codec.kind = "FWData"
    /\ codec.x.fw_header.dnld_cmd = 1
    /\ codec.x.fw_header.base_addr = 0
    /\ codec.x.seq_num = 67305985
    /\ SubSeq(codec.bytes, 1, 8) = <<1, 0, 0, 0, 0, 0, 0, 0>>
    /\ SubSeq(codec.bytes, 17, 20) = <<1, 2, 3, 4>>
    /\ codec.y = codec.x

====
